---- MODULE Spec2Model ----
(***************************************************************************)
(* A model of league_ranker.py: parse_input / parse_line turn text lines   *)
(* into game records, calculate_scores folds them into a points map, and   *)
(* format_ranked_teams sorts and renders the map.                          *)
(*                                                                         *)
(* A Python str is a sequence of one-character strings; a dict is the      *)
(* sequence of its (key, value) items in insertion order; an exception is  *)
(* a record naming its kind and message.                                   *)
(***************************************************************************)
EXTENDS Integers, Sequences, FiniteSets, TLC

VARIABLES
    pc,                \* position in the running function
    input_lines,       \* main: file.readlines()
    i,                 \* parse_input: index of the line the for loop is at
    games,             \* parse_input: the local list built so far
    main_games,        \* main: games, assigned when parse_input returns
    j,                 \* calculate_scores: index of the next game
    scores,            \* calculate_scores / format_ranked_teams: the dict
    sorted_teams,      \* format_ranked_teams: sorted(scores.items(), ...)
    output,            \* format_ranked_teams: the list of lines
    last_points,       \* format_ranked_teams: <<>> is None, <<p>> is p
    rank,              \* format_ranked_teams
    current_position,  \* format_ranked_teams
    stdout,            \* main: what print() has written (a sequence of lines)
    raised,            \* the exception that ended the run, NoError if none
    line,              \* parse_line: its argument
    result,            \* parse_line: its outcome
    written            \* how line was written: its comma-separated sides

vars == <<pc, input_lines, i, games, main_games, j, scores, sorted_teams,
          output, last_points, rank, current_position, stdout, raised,
          line, result, written>>

-----------------------------------------------------------------------------
(* Bounds of the model.                                                    *)

MaxLines == 2      \* lines in an input file
MaxPad == 1        \* characters in one run of whitespace of a generated line
MaxTeams == 3      \* entries of a points map handed to format_ranked_teams
MaxPoints == 3     \* largest points value of such a map

-----------------------------------------------------------------------------
(* Python str primitives.                                                  *)

\* ord(c) for the characters the model writes.
Ord(c) ==
    CASE c = "\t" -> 9   [] c = "\n" -> 10  [] c = " " -> 32  [] c = "+" -> 43
      [] c = "," -> 44   [] c = "-" -> 45   [] c = "." -> 46
      [] c = "0" -> 48   [] c = "1" -> 49   [] c = "2" -> 50  [] c = "3" -> 51
      [] c = "4" -> 52   [] c = "5" -> 53   [] c = "6" -> 54  [] c = "7" -> 55
      [] c = "8" -> 56   [] c = "9" -> 57
      [] c = "A" -> 65   [] c = "B" -> 66   [] c = "C" -> 67  [] c = "F" -> 70
      [] c = "_" -> 95
      [] c = "a" -> 97   [] c = "b" -> 98   [] c = "p" -> 112 [] c = "s" -> 115
      [] c = "t" -> 116  [] c = "x" -> 120

\* str.isspace() for the characters the model writes.
IsSpace(c) == c \in {" ", "\t", "\n"}

IsDigit(c) == c \in {"0", "1", "2", "3", "4", "5", "6", "7", "8", "9"}

DigitVal(c) == Ord(c) - Ord("0")

\* s[a..b], empty when a > b.
Slice(s, a, b) == IF a > b THEN <<>> ELSE SubSeq(s, a, b)

\* s.strip(): s without its leading and trailing whitespace.
Strip(s) ==
    LET keep == {k \in 1..Len(s) : ~IsSpace(s[k])}
    IN  IF keep = {} THEN <<>>
        ELSE LET lo == CHOOSE k \in keep : \A m \in keep : k <= m
                 hi == CHOOSE k \in keep : \A m \in keep : k >= m
             IN  SubSeq(s, lo, hi)

\* s.split(sep) for a one-character sep: the pieces between the separators.
RECURSIVE Split(_, _)
Split(s, sep) ==
    LET at == {k \in 1..Len(s) : s[k] = sep}
    IN  IF at = {} THEN <<s>>
        ELSE LET k == CHOOSE x \in at : \A y \in at : x <= y
             IN  <<Slice(s, 1, k - 1)>> \o Split(Slice(s, k + 1, Len(s)), sep)

\* s.rsplit(sep, 1) for a one-character sep: split at the last sep, if any.
RSplit1(s, sep) ==
    LET at == {k \in 1..Len(s) : s[k] = sep}
    IN  IF at = {} THEN <<s>>
        ELSE LET k == CHOOSE x \in at : \A y \in at : x >= y
             IN  <<Slice(s, 1, k - 1), Slice(s, k + 1, Len(s))>>

\* The value of a string of digits and underscores, underscores ignored.
RECURSIVE DigitsValue(_)
DigitsValue(s) ==
    IF s = <<>> THEN 0
    ELSE LET c == s[Len(s)]
             rest == DigitsValue(SubSeq(s, 1, Len(s) - 1))
         IN  IF c = "_" THEN rest ELSE 10 * rest + DigitVal(c)

\* int(s): surrounding whitespace is dropped, one sign is allowed, then
\* digits, single underscores allowed between digits.  ok = FALSE is the
\* ValueError "invalid literal for int()".
IntOf(s) ==
    LET t == Strip(s)
        signed == t # <<>> /\ t[1] \in {"+", "-"}
        body == IF signed THEN Slice(t, 2, Len(t)) ELSE t
        wellFormed ==
            /\ body # <<>>
            /\ \A k \in 1..Len(body) : IsDigit(body[k]) \/ body[k] = "_"
            /\ IsDigit(body[1]) /\ IsDigit(body[Len(body)])
            /\ \A k \in 1..(Len(body) - 1) : ~(body[k] = "_" /\ body[k + 1] = "_")
    IN  IF ~wellFormed THEN [ok |-> FALSE, val |-> 0]
        ELSE [ok |-> TRUE,
              val |-> IF signed /\ t[1] = "-" THEN 0 - DigitsValue(body)
                      ELSE DigitsValue(body)]

\* str(n) of a natural number: its decimal digits.
RECURSIVE Str(_)
Str(n) ==
    LET d == <<"0", "1", "2", "3", "4", "5", "6", "7", "8", "9">>[(n % 10) + 1]
    IN  IF n < 10 THEN <<d>> ELSE Str(n \div 10) \o <<d>>

\* a < b for two str: lexicographic by code point.
RECURSIVE StrLess(_, _)
StrLess(a, b) ==
    IF b = <<>> THEN FALSE
    ELSE IF a = <<>> THEN TRUE
    ELSE IF a[1] # b[1] THEN Ord(a[1]) < Ord(b[1])
    ELSE StrLess(Tail(a), Tail(b))

-----------------------------------------------------------------------------
(* Outcomes of a call.                                                     *)

NoError == [kind |-> "none", msg |-> ""]
NegativeScore == [kind |-> "ValueError", msg |-> "Scores must be non-negative"]
UnpackError == [kind |-> "ValueError", msg |-> "not enough values to unpack"]
IntError == [kind |-> "ValueError", msg |-> "invalid literal for int()"]
IndexError == [kind |-> "IndexError", msg |-> "list index out of range"]

Returned(game) == [error |-> NoError, game |-> game]
Raised(e) == [error |-> e, game |-> <<>>]

-----------------------------------------------------------------------------
(* parse_line                                                              *)

\* A mutant of parse_line: the negative check looks at the first score only.
parse_line_first_only(l) ==
    LET parts == Split(l, ",")
        side1 == RSplit1(Strip(parts[1]), " ")
        side2 == RSplit1(Strip(parts[2]), " ")
        team1_score == IntOf(side1[2])
        team2_score == IntOf(side2[2])
    IN  IF Len(side1) # 2 THEN Raised(UnpackError)
        ELSE IF Len(parts) < 2 THEN Raised(IndexError)
        ELSE IF Len(side2) # 2 THEN Raised(UnpackError)
        ELSE IF ~team1_score.ok THEN Raised(IntError)
        ELSE IF ~team2_score.ok THEN Raised(IntError)
        ELSE IF team1_score.val < 0 THEN Raised(NegativeScore)
        ELSE Returned(<<Strip(side1[1]), team1_score.val,
                        Strip(side2[1]), team2_score.val>>)

parse_line(l) ==
    LET parts == Split(l, ",")
        side1 == RSplit1(Strip(parts[1]), " ")
        side2 == RSplit1(Strip(parts[2]), " ")
        team1_score == IntOf(side1[2])
        team2_score == IntOf(side2[2])
    IN  IF Len(side1) # 2 THEN Raised(UnpackError)
        ELSE IF Len(parts) < 2 THEN Raised(IndexError)
        ELSE IF Len(side2) # 2 THEN Raised(UnpackError)
        ELSE IF ~team1_score.ok THEN Raised(IntError)
        ELSE IF ~team2_score.ok THEN Raised(IntError)
        ELSE IF team1_score.val < 0 \/ team2_score.val < 0
             THEN Raised(NegativeScore)
        ELSE Returned(<<Strip(side1[1]), team1_score.val,
                        Strip(side2[1]), team2_score.val>>)

-----------------------------------------------------------------------------
(* calculate_scores                                                        *)

Keys(m) == {m[k][1] : k \in 1..Len(m)}

\* m.get(key, 0)
Points(m, key) ==
    IF key \in Keys(m)
    THEN m[CHOOSE k \in 1..Len(m) : m[k][1] = key][2]
    ELSE 0

\* m.setdefault(key, 0): a new key goes to the end of the dict.
SetDefault(m, key) == IF key \in Keys(m) THEN m ELSE Append(m, <<key, 0>>)

\* m[key] += n for a key of m.
AddPoints(m, key, n) ==
    [k \in 1..Len(m) |-> IF m[k][1] = key THEN <<key, m[k][2] + n>> ELSE m[k]]

\* A mutant of ScoreGame: a draw gives nothing.
ScoreGameNoDraw(m, game) ==
    LET team1 == game[1]
        score1 == game[2]
        team2 == game[3]
        score2 == game[4]
        m0 == SetDefault(SetDefault(m, team1), team2)
    IN  IF score1 > score2 THEN AddPoints(m0, team1, 3)
        ELSE IF score1 < score2 THEN AddPoints(m0, team2, 3)
        ELSE m0

\* A mutant of ScoreGame: only the team that gains points gets an entry.
ScoreGameNoLoser(m, game) ==
    LET team1 == game[1]
        score1 == game[2]
        team2 == game[3]
        score2 == game[4]
    IN  IF score1 > score2 THEN AddPoints(SetDefault(m, team1), team1, 3)
        ELSE IF score1 < score2 THEN AddPoints(SetDefault(m, team2), team2, 3)
        ELSE AddPoints(AddPoints(SetDefault(SetDefault(m, team1), team2),
                                 team1, 1), team2, 1)

\* One iteration of the for loop of calculate_scores.
ScoreGame(m, game) ==
    LET team1 == game[1]
        score1 == game[2]
        team2 == game[3]
        score2 == game[4]
        m0 == SetDefault(SetDefault(m, team1), team2)
    IN  IF score1 > score2 THEN AddPoints(m0, team1, 3)
        ELSE IF score1 < score2 THEN AddPoints(m0, team2, 3)
        ELSE AddPoints(AddPoints(m0, team1, 1), team2, 1)

RECURSIVE ScoreAll(_, _)
ScoreAll(m, gs) ==
    IF gs = <<>> THEN m ELSE ScoreAll(ScoreGame(m, Head(gs)), Tail(gs))

calculate_scores(gs) == ScoreAll(<<>>, gs)

-----------------------------------------------------------------------------
(* format_ranked_teams                                                     *)

\* A mutant of KeyLess: the key is -points alone, so teams level on points
\* stay in the order of the dict.
KeyLessPointsOnly(x, y) == x[2] > y[2]

\* (-x[1], x[0]) < (-y[1], y[0]) for two items (team, points) of the dict.
KeyLess(x, y) == x[2] > y[2] \/ (x[2] = y[2] /\ StrLess(x[1], y[1]))

\* sorted(...) is stable: an item goes after the items it is not less than.
RECURSIVE Insert(_, _)
Insert(sortedItems, x) ==
    IF sortedItems = <<>> THEN <<x>>
    ELSE IF KeyLess(x, Head(sortedItems)) THEN <<x>> \o sortedItems
    ELSE <<Head(sortedItems)>> \o Insert(Tail(sortedItems), x)

RECURSIVE SortItems(_, _)
SortItems(done, items) ==
    IF items = <<>> THEN done
    ELSE SortItems(Insert(done, Head(items)), Tail(items))

\* sorted(scores.items(), key=lambda x: (-x[1], x[0]))
Sorted(m) == SortItems(<<>>, m)

\* A mutant of NewRank: dense ranking, the next rank after a tie block is
\* one more than the block's.
NewRankDense(points, last, oldRank, position) ==
    IF <<points>> # last THEN oldRank + 1 ELSE oldRank

\* if points != last_points: rank = current_position
NewRank(points, last, oldRank, position) ==
    IF <<points>> # last THEN position ELSE oldRank

\* A mutant of PointsLabel: "pt" for every value up to 1.
PointsLabelUpToOne(points) ==
    IF points <= 1 THEN <<"p", "t">> ELSE <<"p", "t", "s">>

\* "pt" if points == 1 else "pts"
PointsLabel(points) ==
    IF points = 1 THEN <<"p", "t">> ELSE <<"p", "t", "s">>

\* f"{rank}. {team}, {points} {points_label}"
FormatLine(r, team, points) ==
    Str(r) \o <<".", " ">> \o team \o <<",", " ">> \o Str(points)
           \o <<" ">> \o PointsLabel(points)

\* The loop of format_ranked_teams from a given state of its variables.
RECURSIVE FormatLoop(_, _, _, _, _)
FormatLoop(items, out, last, r, position) ==
    IF items = <<>> THEN out
    ELSE LET team == Head(items)[1]
             points == Head(items)[2]
             r1 == NewRank(points, last, r, position + 1)
         IN  FormatLoop(Tail(items), Append(out, FormatLine(r1, team, points)),
                        <<points>>, r1, position + 1)

format_ranked_teams(m) == FormatLoop(Sorted(m), <<>>, <<>>, 0, 0)

\* "\n".join(lines)
RECURSIVE Join(_)
Join(lines) ==
    IF lines = <<>> THEN <<>>
    ELSE IF Len(lines) = 1 THEN lines[1]
    ELSE lines[1] \o <<"\n">> \o Join(Tail(lines))

-----------------------------------------------------------------------------
(* Inputs.                                                                 *)

\* Runs of spaces and tabs of at most n characters.
WsRuns(n) == UNION {[1..k -> {" ", "\t"}] : k \in 0..n}

Pads == WsRuns(MaxPad)
Names == {<<>>, <<"A">>, <<"F", "C", " ", "A">>}
ScoreTokens == {<<>>, <<"0">>, <<"1">>, <<"-", "1">>, <<"x">>}

\* One side of a line as it is written: whitespace, a name, whitespace, a
\* score token, whitespace; any of them may be missing.
Sides == [lead : Pads, name : Names, sep : Pads, score : ScoreTokens,
          trail : Pads]
PlainSides == {s \in Sides : s.lead = <<>> /\ s.sep = <<" ">> /\ s.trail = <<>>}

SideText(s) == s.lead \o s.name \o s.sep \o s.score \o s.trail

RECURSIVE LineText(_)
LineText(sides) ==
    IF Len(sides) = 1 THEN SideText(sides[1])
    ELSE SideText(sides[1]) \o <<",">> \o LineText(Tail(sides))

\* The lines of an input file: results of games between two teams, blank
\* lines, and lines parse_line rejects.
FileTeams == {<<"A">>, <<"B">>}
FileScores == {0, 1}
GameText(t1, s1, t2, s2) ==
    t1 \o <<" ">> \o Str(s1) \o <<",", " ">> \o t2 \o <<" ">> \o Str(s2)
       \o <<"\n">>
GameLines ==
    {GameText(t1, s1, t2, s2) :
        t1 \in FileTeams, s1 \in FileScores, t2 \in FileTeams, s2 \in FileScores}
BlankLines == {<<"\n">>, <<" ", "\t", "\n">>}
BadLines == {<<"A", " ", "-", "1", ",", " ", "B", " ", "0", "\n">>,
             <<"A", " ", "1", "\n">>,
             <<"A", ",", " ", "B", " ", "1", "\n">>}
FileLines == GameLines \cup BlankLines \cup BadLines
Inputs == UNION {[1..n -> FileLines] : n \in 0..MaxLines}

\* The points maps handed to format_ranked_teams: every insertion order of
\* up to MaxTeams distinct teams with up to MaxPoints points each.
RankTeams == {<<"A">>, <<"B">>, <<"a">>, <<"A", "B">>}
RankMaps ==
    {m \in UNION {[1..n -> RankTeams \X (0..MaxPoints)] : n \in 0..MaxTeams} :
        \A a, b \in 1..Len(m) : a # b => m[a][1] # m[b][1]}

-----------------------------------------------------------------------------
(* The state machine.                                                      *)

NoResult == Returned(<<>>)

Idle ==
    /\ i = 1 /\ games = <<>> /\ main_games = <<>> /\ j = 1
    /\ sorted_teams = <<>> /\ output = <<>> /\ last_points = <<>>
    /\ rank = 0 /\ current_position = 0 /\ stdout = <<>>
    /\ raised = NoError /\ result = NoResult

\* main(input_file) after file.readlines().
Init ==
    /\ pc = "parse_input"
    /\ input_lines \in Inputs
    /\ scores = <<>> /\ line = <<>> /\ written = <<>>
    /\ Idle

\* A call parse_line(line).  The line has one side and no comma, two sides
\* of which one at least is written plainly, or three plain sides.
InitLine ==
    /\ pc = "parse_line"
    /\ \/ \E s \in Sides : written = <<s>>
       \/ \E s \in Sides, t \in PlainSides : written = <<s, t>>
       \/ \E s \in PlainSides, t \in Sides : written = <<s, t>>
       \/ \E s \in PlainSides, t \in PlainSides, u \in PlainSides :
            written = <<s, t, u>>
    /\ line = LineText(written)
    /\ input_lines = <<>> /\ scores = <<>>
    /\ Idle

\* A call format_ranked_teams(scores).
InitRank ==
    /\ pc = "format_sort"
    /\ scores \in RankMaps
    /\ input_lines = <<>> /\ line = <<>> /\ written = <<>>
    /\ Idle

ParseLine ==
    /\ pc = "parse_line"
    /\ result' = parse_line(line)
    /\ pc' = "done"
    /\ UNCHANGED <<input_lines, i, games, main_games, j, scores, sorted_teams,
                   output, last_points, rank, current_position, stdout,
                   raised, line, written>>

\* A mutant of ParseInputStep: a line parse_line rejects is skipped.
ParseInputStepSkipBad ==
    /\ pc = "parse_input"
    /\ i <= Len(input_lines)
    /\ LET r == parse_line(input_lines[i])
       IN  IF Strip(input_lines[i]) = <<>> \/ r.error # NoError
           THEN UNCHANGED games
           ELSE games' = Append(games, r.game)
    /\ i' = i + 1
    /\ UNCHANGED <<pc, raised, input_lines, main_games, j, scores, sorted_teams,
                   output, last_points, rank, current_position, stdout, line,
                   result, written>>

\* A mutant of ParseInputStep: only the empty string counts as blank
\* (if line: instead of if line.strip():).
ParseInputStepNoStrip ==
    /\ pc = "parse_input"
    /\ i <= Len(input_lines)
    /\ LET r == parse_line(input_lines[i])
       IN  IF input_lines[i] = <<>>
           THEN /\ i' = i + 1
                /\ UNCHANGED <<games, pc, raised>>
           ELSE IF r.error = NoError
           THEN /\ games' = Append(games, r.game)
                /\ i' = i + 1
                /\ UNCHANGED <<pc, raised>>
           ELSE /\ raised' = r.error
                /\ pc' = "raised"
                /\ UNCHANGED <<games, i>>
    /\ UNCHANGED <<input_lines, main_games, j, scores, sorted_teams, output,
                   last_points, rank, current_position, stdout, line, result,
                   written>>

\* One iteration of the for loop of parse_input: a blank line is passed
\* over, another line is parsed and its game appended, and an exception of
\* parse_line leaves parse_input and main.
ParseInputStep ==
    /\ pc = "parse_input"
    /\ i <= Len(input_lines)
    /\ LET r == parse_line(input_lines[i])
       IN  IF Strip(input_lines[i]) = <<>>
           THEN /\ i' = i + 1
                /\ UNCHANGED <<games, pc, raised>>
           ELSE IF r.error = NoError
           THEN /\ games' = Append(games, r.game)
                /\ i' = i + 1
                /\ UNCHANGED <<pc, raised>>
           ELSE /\ raised' = r.error
                /\ pc' = "raised"
                /\ UNCHANGED <<games, i>>
    /\ UNCHANGED <<input_lines, main_games, j, scores, sorted_teams, output,
                   last_points, rank, current_position, stdout, line, result,
                   written>>

\* return games, and main's games = parse_input(input_lines).
ParseInputReturn ==
    /\ pc = "parse_input"
    /\ i > Len(input_lines)
    /\ main_games' = games
    /\ pc' = "calculate_scores"
    /\ UNCHANGED <<input_lines, i, games, j, scores, sorted_teams, output,
                   last_points, rank, current_position, stdout, raised, line,
                   result, written>>

\* One iteration of the for loop of calculate_scores.
ScoreStep ==
    /\ pc = "calculate_scores"
    /\ j <= Len(main_games)
    /\ scores' = ScoreGame(scores, main_games[j])
    /\ j' = j + 1
    /\ UNCHANGED <<pc, input_lines, i, games, main_games, sorted_teams, output,
                   last_points, rank, current_position, stdout, raised, line,
                   result, written>>

\* return scores, and main calls format_ranked_teams(scores).
ScoreReturn ==
    /\ pc = "calculate_scores"
    /\ j > Len(main_games)
    /\ pc' = "format_sort"
    /\ UNCHANGED <<input_lines, i, games, main_games, j, scores, sorted_teams,
                   output, last_points, rank, current_position, stdout,
                   raised, line, result, written>>

\* The lines of format_ranked_teams before its loop.
FormatSort ==
    /\ pc = "format_sort"
    /\ sorted_teams' = Sorted(scores)
    /\ output' = <<>>
    /\ last_points' = <<>>
    /\ rank' = 0
    /\ current_position' = 0
    /\ pc' = "format_loop"
    /\ UNCHANGED <<input_lines, i, games, main_games, j, scores, stdout,
                   raised, line, result, written>>

\* One iteration of the for loop of format_ranked_teams.
FormatStep ==
    /\ pc = "format_loop"
    /\ current_position < Len(sorted_teams)
    /\ LET team == sorted_teams[current_position + 1][1]
           points == sorted_teams[current_position + 1][2]
           r == NewRank(points, last_points, rank, current_position + 1)
       IN  /\ current_position' = current_position + 1
           /\ rank' = r
           /\ output' = Append(output, FormatLine(r, team, points))
           /\ last_points' = <<points>>
    /\ UNCHANGED <<pc, input_lines, i, games, main_games, j, scores,
                   sorted_teams, stdout, raised, line, result, written>>

\* return output
FormatReturn ==
    /\ pc = "format_loop"
    /\ current_position = Len(sorted_teams)
    /\ pc' = "formatted"
    /\ UNCHANGED <<input_lines, i, games, main_games, j, scores, sorted_teams,
                   output, last_points, rank, current_position, stdout,
                   raised, line, result, written>>

\* print("\n".join(ranked_teams))
PrintOutput ==
    /\ pc = "formatted"
    /\ stdout' = Join(output) \o <<"\n">>
    /\ pc' = "done"
    /\ UNCHANGED <<input_lines, i, games, main_games, j, scores, sorted_teams,
                   output, last_points, rank, current_position, raised, line,
                   result, written>>

Next ==
    \/ ParseInputStep
    \/ ParseInputReturn
    \/ ScoreStep
    \/ ScoreReturn
    \/ FormatSort
    \/ FormatStep
    \/ FormatReturn
    \/ PrintOutput

NextLine == ParseLine

NextRank == FormatSort \/ FormatStep \/ FormatReturn

\* main on an input file.
Spec == Init /\ [][Next]_vars

\* parse_line on one line.
SpecLine == InitLine /\ [][NextLine]_vars

\* format_ranked_teams on one points map.
SpecRank == InitRank /\ [][NextRank]_vars

-----------------------------------------------------------------------------
(* Properties of parse_line, under SpecLine.                               *)

\* The comma-delimited sides parse_line reads, and what stands before and
\* after the last space of side k: its name and its score token.
CommaParts == Split(line, ",")
SideTokens(k) == RSplit1(Strip(CommaParts[k]), " ")
HasTwoScoreTokens ==
    /\ Len(CommaParts) >= 2
    /\ Len(SideTokens(1)) = 2
    /\ Len(SideTokens(2)) = 2
ScoreOf(k) == IntOf(SideTokens(k)[2])
IsNegative(k) == ScoreOf(k).ok /\ ScoreOf(k).val < 0

\* C4, as claimed: whenever either of the two score tokens parses to an
\* integer below zero, parse_line raises ValueError("Scores must be
\* non-negative") and returns no game; with both scores >= 0 it never
\* raises that error.
C4_Original ==
    pc = "done" =>
        /\ (HasTwoScoreTokens /\ (IsNegative(1) \/ IsNegative(2)))
               => result = Raised(NegativeScore)
        /\ (HasTwoScoreTokens /\ ScoreOf(1).ok /\ ScoreOf(2).ok
               /\ ScoreOf(1).val >= 0 /\ ScoreOf(2).val >= 0)
               => result.error # NegativeScore

\* C4, amended: parse_line raises ValueError("Scores must be non-negative"),
\* and returns no game, exactly for the lines in which both score tokens
\* parse to integers and at least one of them is below zero; when both are
\* >= 0 a game is returned.
C4_Theorem ==
    pc = "done" =>
        /\ result.error = NegativeScore
              <=> /\ HasTwoScoreTokens
                  /\ ScoreOf(1).ok /\ ScoreOf(2).ok
                  /\ (ScoreOf(1).val < 0 \/ ScoreOf(2).val < 0)
        /\ result.error = NegativeScore => result.game = <<>>
        /\ (HasTwoScoreTokens /\ ScoreOf(1).ok /\ ScoreOf(2).ok
               /\ ScoreOf(1).val >= 0 /\ ScoreOf(2).val >= 0)
               => result.error = NoError

\* C4, witness: a line whose second score alone is negative was rejected.
C4_Witness ==
    /\ pc = "done"
    /\ Len(written) = 2
    /\ written[1].score = <<"1">>
    /\ written[2].score = <<"-", "1">>
    /\ result = Raised(NegativeScore)

C7_Claim ==
    (/\ pc = "done"
     /\ Len(written) = 2
     /\ \A k \in 1..2 :
            /\ written[k].name # <<>>
            /\ written[k].sep # <<>>
            /\ IntOf(written[k].score).ok
            /\ IntOf(written[k].score).val >= 0)
        => result = Returned(<<written[1].name, IntOf(written[1].score).val,
                               written[2].name, IntOf(written[2].score).val>>)

-----------------------------------------------------------------------------
(* Properties of parse_input and main, under Spec.                         *)

IsBlank(l) == \A k \in 1..Len(l) : l[k] \in {" ", "\t", "\n"}
NotBlank(l) == ~IsBlank(l)
NonBlank(lines) == SelectSeq(lines, NotBlank)
GamesOf(lines) == [k \in 1..Len(lines) |-> parse_line(lines[k]).game]

\* The non-blank lines parse_line rejects, and the first of them.
BadAt ==
    {k \in 1..Len(input_lines) :
        NotBlank(input_lines[k]) /\ parse_line(input_lines[k]).error # NoError}
FirstBad == CHOOSE k \in BadAt : \A m \in BadAt : k <= m

\* C5: when some non-blank line fails in parse_line, the run never gets
\* past parse_input: the loop never goes beyond the first failing line, the
\* run ends there in that line's error, main gets no list of games, no
\* points map is computed and nothing is formatted or printed.
C5_Theorem ==
    BadAt # {} =>
        /\ pc \in {"parse_input", "raised"}
        /\ i <= FirstBad
        /\ main_games = <<>> /\ scores = <<>> /\ output = <<>> /\ stdout = <<>>
        /\ pc = "parse_input" => raised = NoError
        /\ pc = "raised" =>
              /\ i = FirstBad
              /\ raised = parse_line(input_lines[FirstBad]).error

\* C5, witness: the second line failed after the first had been parsed.
C5_Witness ==
    /\ pc = "raised"
    /\ i = 2
    /\ Len(games) = 1
    /\ raised # NoError

\* C8: parse_input passes over exactly the lines that are empty or all
\* whitespace; when every other line is valid it does not fail and returns
\* the parse_line records of the non-blank lines in input order, and the
\* printed standings are those of the input without its blank lines.
C8_Theorem ==
    /\ BadAt = {} => pc # "raised"
    /\ pc = "parse_input" =>
          games = GamesOf(NonBlank(SubSeq(input_lines, 1, i - 1)))
    /\ pc \notin {"parse_input", "raised"} =>
          main_games = GamesOf(NonBlank(input_lines))
    /\ pc = "done" =>
          stdout = Join(format_ranked_teams(calculate_scores(
                            GamesOf(NonBlank(input_lines))))) \o <<"\n">>

\* C8, witness: a run of a blank line and a valid line, printed.
C8_Witness ==
    /\ pc = "done"
    /\ Len(input_lines) = 2
    /\ IsBlank(input_lines[1])
    /\ Len(main_games) = 1

-----------------------------------------------------------------------------
(* Properties of calculate_scores, under Spec.                             *)

Gain(team) == Points(scores', team) - Points(scores, team)
KnownTeams == FileTeams \cup Keys(scores) \cup Keys(scores')

\* C1, as claimed: whatever the two team names, the game gives 3 points to
\* the winner and 0 to the loser, or 1 to each side of a draw, and changes
\* no other team's points.
C1_Original ==
    [][ScoreStep =>
        LET game == main_games[j]
            a == game[1]
            b == game[3]
        IN  /\ game[2] > game[4] => Gain(a) = 3 /\ Gain(b) = 0
            /\ game[2] < game[4] => Gain(b) = 3 /\ Gain(a) = 0
            /\ game[2] = game[4] => Gain(a) = 1 /\ Gain(b) = 1
            /\ \A t \in KnownTeams \ {a, b} : Gain(t) = 0]_vars

\* C1, amended: between two different teams the game gives 3 points to the
\* winner and 0 to the loser, or 1 to each side of a draw; when both sides
\* name the same team, that team gains 3 if the scores differ and 2 if they
\* are equal; no other team's points change.
C1_Theorem ==
    [][ScoreStep =>
        LET game == main_games[j]
            a == game[1]
            b == game[3]
        IN  /\ a # b =>
                  /\ game[2] > game[4] => Gain(a) = 3 /\ Gain(b) = 0
                  /\ game[2] < game[4] => Gain(b) = 3 /\ Gain(a) = 0
                  /\ game[2] = game[4] => Gain(a) = 1 /\ Gain(b) = 1
            /\ a = b => Gain(a) = IF game[2] # game[4] THEN 3 ELSE 2
            /\ \A t \in KnownTeams \ {a, b} : Gain(t) = 0]_vars

\* C1, witness: a won game and a 0-0 draw between two teams were scored.
C1_Witness ==
    /\ pc = "calculate_scores"
    /\ j = 3
    /\ main_games[1] = <<<<"A">>, 1, <<"B">>, 0>>
    /\ main_games[2] = <<<<"B">>, 0, <<"A">>, 0>>
    /\ scores = << <<<<"A">>, 4>>, <<<<"B">>, 1>> >>

TeamsIn(gs) == {gs[k][1] : k \in 1..Len(gs)} \cup {gs[k][3] : k \in 1..Len(gs)}

\* The points of a team over the first n games, counted game by game.
Tally(team, n) ==
    3 * Cardinality({k \in 1..n :
            \/ main_games[k][1] = team /\ main_games[k][2] > main_games[k][4]
            \/ main_games[k][3] = team /\ main_games[k][4] > main_games[k][2]})
      + Cardinality({k \in 1..n :
            main_games[k][1] = team /\ main_games[k][2] = main_games[k][4]})
      + Cardinality({k \in 1..n :
            main_games[k][3] = team /\ main_games[k][2] = main_games[k][4]})

C9_Invariant ==
    pc = "calculate_scores" =>
        /\ Keys(scores) = TeamsIn(SubSeq(main_games, 1, j - 1))
        /\ Cardinality(Keys(scores)) = Len(scores)
        /\ \A k \in 1..Len(scores) :
              /\ scores[k][2] \in Nat
              /\ scores[k][2] = Tally(scores[k][1], j - 1)

\* C9: after any prefix of the games the keys of the points map are the
\* teams of that prefix, each once, with a non-negative value that counts
\* every game of the prefix, repeated fixtures included; and no step ever
\* removes a key.
C9_Theorem ==
    []C9_Invariant /\ [][Keys(scores) \subseteq Keys(scores')]_vars

\* C9, witness: the same fixture scored twice, its loser holding 0 points.
C9_Witness ==
    /\ pc = "calculate_scores"
    /\ j = 3
    /\ main_games[1] = main_games[2]
    /\ scores = << <<<<"A">>, 6>>, <<<<"B">>, 0>> >>

-----------------------------------------------------------------------------
(* Properties of format_ranked_teams, under SpecRank.                      *)

FirstIndex(l, c) ==
    CHOOSE k \in 1..Len(l) : l[k] = c /\ \A m \in 1..(k - 1) : l[m] # c
LastIndex(l, c) ==
    CHOOSE k \in 1..Len(l) : l[k] = c /\ \A m \in (k + 1)..Len(l) : l[m] # c

\* What a line of the output says: the number before its first ".", and
\* the name between that ". " and its last ",".
LineRank(l) == DigitsValue(SubSeq(l, 1, FirstIndex(l, ".") - 1))
LineTeam(l) == SubSeq(l, FirstIndex(l, ".") + 2, LastIndex(l, ",") - 1)
LinePoints(l) == Points(scores, LineTeam(l))

Formatting == pc \in {"format_loop", "formatted"}

\* C2: the first line has rank 1; a line has the rank of the line before it
\* exactly when the two teams have equal points, and otherwise its 1-based
\* position; so a finished list gives every team the rank 1 + the number of
\* teams with strictly more points.
C2_Theorem ==
    /\ Formatting =>
          \A k \in 1..Len(output) :
              /\ k = 1 => LineRank(output[k]) = 1
              /\ k > 1 =>
                    /\ LineRank(output[k]) = LineRank(output[k - 1])
                          <=> LinePoints(output[k]) = LinePoints(output[k - 1])
                    /\ LinePoints(output[k]) # LinePoints(output[k - 1])
                          => LineRank(output[k]) = k
    /\ pc = "formatted" =>
          \A k \in 1..Len(output) :
              LineRank(output[k]) =
                  1 + Cardinality({t \in Keys(scores) :
                          Points(scores, t) > LinePoints(output[k])})

\* C2, witness: two teams share rank 1 and the next team has rank 3.
C2_Witness ==
    /\ pc = "formatted"
    /\ Len(output) = 3
    /\ LineRank(output[1]) = 1
    /\ LineRank(output[2]) = 1
    /\ LineRank(output[3]) = 3

\* The dict with its items inserted in the order p.
Reordered(m, p) == [k \in 1..Len(m) |-> m[p[k]]]

\* C3: the output has one line per key of the map; of two consecutive
\* lines the earlier team has more points, or equal points and the smaller
\* name; and every insertion order of the same items gives the same output.
C3_Theorem ==
    pc = "formatted" =>
        /\ Len(output) = Cardinality(Keys(scores))
        /\ {LineTeam(output[k]) : k \in 1..Len(output)} = Keys(scores)
        /\ \A k \in 2..Len(output) :
              \/ LinePoints(output[k - 1]) > LinePoints(output[k])
              \/ /\ LinePoints(output[k - 1]) = LinePoints(output[k])
                 /\ StrLess(LineTeam(output[k - 1]), LineTeam(output[k]))
        /\ \A p \in Permutations(1..Len(scores)) :
              format_ranked_teams(Reordered(scores, p)) = output

\* C3, witness: "a" was inserted before "B" with equal points and comes
\* after it in the output, behind a team with more points inserted last.
C3_Witness ==
    /\ pc = "formatted"
    /\ Len(scores) = 3
    /\ scores[1][1] = <<"a">>
    /\ scores[2][1] = <<"B">>
    /\ scores[1][2] = scores[2][2]
    /\ scores[3][2] > scores[1][2]
    /\ LineTeam(output[2]) = <<"B">>
    /\ LineTeam(output[3]) = <<"a">>

\* C10: line k of the output is "<rank>. <team>, <points> <unit>" for the
\* k-th team in sort order and its points in the map, the unit being "pt"
\* exactly when the points are 1 and "pts" otherwise, 0 included.
C10_Theorem ==
    Formatting =>
        \A k \in 1..Len(output) :
            LET team == sorted_teams[k][1]
                points == Points(scores, team)
                unit == IF points = 1 THEN <<"p", "t">> ELSE <<"p", "t", "s">>
            IN  \E r \in 1..Len(sorted_teams) :
                    output[k] = Str(r) \o <<".", " ">> \o team \o <<",", " ">>
                                    \o Str(points) \o <<" ">> \o unit

\* C10, witness: a line for 1 point and a line for 0 points were written.
C10_Witness ==
    /\ pc = "formatted"
    /\ Len(output) = 2
    /\ output[1] = <<"1", ".", " ", "A", ",", " ", "1", " ", "p", "t">>
    /\ output[2] = <<"2", ".", " ", "B", ",", " ", "0", " ", "p", "t", "s">>

====
